---- MODULE Spec2Model ----
(***************************************************************************)
(* State-machine model of app/static/js/main.js: the singleton managers    *)
(* (EventManager, StateManager, LoadingManager, ApiManager,                *)
(* NotificationManager) and MalaysiaGeneratorApp.                          *)
(*                                                                         *)
(* Time is in milliseconds.  A timer set with setTimeout is a remaining    *)
(* time; Tick lets time pass, never beyond the earliest pending timer, and *)
(* a timer fires when its remaining time is 0.                             *)
(***************************************************************************)
EXTENDS Integers, Sequences, FiniteSets, TLC

\* ---------------------------------------------------------------- constants
Timeout == 300000
RetryAttempts == 3
BackoffBase == 1000
AnimationDuration == 250

\* ------------------------------------------------------------------- bounds
\* startGeneration calls (button clicks and form submissions) in one run
MaxCalls == 2
\* registrations held by the event manager, and emit() calls made by
\* scripts, in one run of its specification
MaxListeners == 3
MaxEmits == 2
\* off() calls made by scripts (not by listeners) in one run
MaxOffs == 1
\* calls of the function returned by subscribe(), for one callback
MaxUnsubs == 2
\* keydown events in one run
MaxKeys == 1
\* logger calls in one run of the logger specification
MaxLogCalls == 3
\* LoadingManager calls that emit their event, in one run of its specification
MaxLoadCalls == 4
\* the coarse step by which time may pass when no timer is due sooner
TickStep == 100000
\* StateManager.setState calls in one run of the state-store specification
MaxSetStates == 3
\* notifications shown, close(id) calls made for one id by the user or by
\* scripts, and the age (in steps of the animation delay) up to which a
\* notification is followed, in one run of the notification specification
MaxNotifs == 2
MaxCloses == 2
MaxAge == 4

Calls == 1..MaxCalls
NoTimer == -1
Attempts == 1..(RetryAttempts + 1)

\* ------------------------------------------------------------ configuration
\* APP_STATE, the initial state of the state store
APP_STATE ==
    [initialized |-> FALSE, loading |-> FALSE, currentGeneration |-> "null",
     lastGenerationTime |-> "null", errors |-> "[]", warnings |-> "[]",
     currentView |-> "form", modules |-> "{}"]

\* the event types this file emits
EventTypes ==
    {"stateChanged", "loadingStarted", "loadingProgress", "loadingStopped",
     "allLoadingStopped", "apiSuccess", "apiError", "notificationShown",
     "notificationClosed", "appInitialized", "viewportChanged",
     "generationCompleted", "escapePressed"}

VARIABLES
    \* StateManager
    state,            \* this.state: key -> value
    subscribers,      \* this.subscribers
    delivered,        \* subscriber -> the (newState, previousState) of its last call
    \* EventManager
    listeners,        \* this.listeners: event type -> callbacks, in order
    heard,            \* callback -> the data of its last call
    emitCount,        \* event type -> number of emit() calls
    \* LoadingManager
    activeLoads,      \* this.activeLoads
    overlay,          \* "null" before initialize(), else overlay.style.display
    \* NotificationManager
    container,        \* this.container # null
    notifShown,       \* who showed it -> the notifications shown: [type, message]
    generated,        \* call -> the data of its generationCompleted events
    \* the page
    page,             \* what the document holds for #loadingOverlay
    \* MalaysiaGeneratorApp bootstrap
    initialized,      \* app.initialized
    modules,          \* keys of app.modules
    initPc,           \* position of initialize()
    modIdx,           \* loadModules' loop index i (1-based)
    attempted,        \* module names whose script was requested, in order
    settled,          \* how each requested script settled, in order
    domListeners,     \* DOM listeners attached so far
    initError,        \* what initialize() rejected with
    \* calls of startGeneration / ApiManager.request
    pc,               \* call -> position
    caller,           \* call -> "none" | "request" | "generation"
    attempt,          \* call -> loop variable of request()
    abortTimer,       \* call -> attempt -> remaining ms of setTimeout(abort)
    delayTimer,       \* call -> remaining ms of this.delay(...)
    fetches,          \* call -> number of fetch() calls made
    failed,           \* call -> number of attempts that ended in the catch block
    lastError,        \* call -> the error caught last
    delays,           \* call -> the backoff delays asked of this.delay, in order
    waited,           \* call -> ms since the pending backoff delay was started
    result,           \* call -> how request() settled
    elapsed,          \* call -> ms since the pending fetch() was started
    form,             \* call -> how the form read of startGeneration ended
    \* scripts that use the exported stateManager
    setStateArg,      \* the updates of the last stateManager.setState(updates)
    \* Logger
    logger,           \* the logger object: currentLevel and an own property level
    debugEnabled,     \* APP_CONFIG.debug.enabled
    logCalls,         \* method -> number of calls of logger.<method>
    console,          \* method -> number of messages it wrote to the console
    \* the keydown listener of the document
    keysPressed,      \* number of keydown events handled
    lastKey,          \* the key of the last keydown event
    prevented,        \* whether its handler called event.preventDefault()
    \* scripts that use the exported eventManager
    called,           \* the callbacks called by the last emit(), in order, with the data
    lastEmit,         \* the last emit(): its type, its data, whether it threw
    lastOff,          \* the last off(): its type, its callback, the index it removed,
                      \* and how many off() calls scripts have made
    \* scripts that subscribe callbacks with behaviour to the stateManager
    subOrder,         \* this.subscribers in insertion order (the order of Set.forEach)
    unsubCalls,       \* callback -> calls made of the function that the first
                      \* subscribe(callback) returned
    trace,            \* what the last setState() call of a script did, in order:
                      \* the subscriber calls and the stateChanged emissions
    \* scripts, the user and the timers that use the notificationManager
    notifications,    \* this.notifications: the ids in the Map
    children,         \* the ids whose element is a child of the container
    note,             \* id -> whether show() made it, its duration, its age
    autoTimer,        \* id -> ms left on the auto-close timer of show(), or NoTimer
    removeTimers,     \* id -> ms left on each pending removal timer of close(),
                      \* oldest first
    closeCalls,       \* id -> close(id) calls made by the user or by scripts
    closedEvents      \* id -> notificationClosed events emitted with that id

mgrVars == <<state, subscribers, delivered, listeners, heard, emitCount,
             activeLoads, overlay, container, notifShown, generated>>
bootVars == <<page, initialized, modules, initPc, modIdx, attempted, settled,
              domListeners, initError>>
reqVars == <<pc, caller, attempt, abortTimer, delayTimer, fetches, failed,
             lastError, delays, waited, result, elapsed>>
callVars == <<reqVars, form, setStateArg>>
logVars == <<logger, debugEnabled, logCalls, console>>
keyVars == <<keysPressed, lastKey, prevented>>
busVars == <<called, lastEmit, lastOff>>
subVars == <<subOrder, unsubCalls, trace>>
notifVars == <<notifications, children, note, autoTimer, removeTimers,
               closeCalls, closedEvents>>
notLogVars == <<keyVars, busVars, subVars, notifVars>>
notBusVars == <<logVars, keyVars, subVars, notifVars>>
notNotifVars == <<logVars, keyVars, busVars, subVars>>
extVars == <<notNotifVars, notifVars>>
vars == <<mgrVars, bootVars, callVars, extVars>>

\* ------------------------------------------------ the managers as one value
\* The fields of the singleton managers, gathered so that the calls one
\* handler makes can be composed in program order.
World ==
    [state |-> state, subscribers |-> subscribers, delivered |-> delivered,
     listeners |-> listeners, heard |-> heard, emitCount |-> emitCount,
     activeLoads |-> activeLoads, overlay |-> overlay, container |-> container,
     notifShown |-> notifShown, generated |-> generated]

Commit(w) ==
    /\ state' = w.state
    /\ subscribers' = w.subscribers
    /\ delivered' = w.delivered
    /\ listeners' = w.listeners
    /\ heard' = w.heard
    /\ emitCount' = w.emitCount
    /\ activeLoads' = w.activeLoads
    /\ overlay' = w.overlay
    /\ container' = w.container
    /\ notifShown' = w.notifShown
    /\ generated' = w.generated

Range(f) == {f[i] : i \in DOMAIN f}

\* EventManager.emit: every callback registered for the event type is called
\* with the data
Emit(w, eventType, data) ==
    [w EXCEPT !.emitCount[eventType] = @ + 1,
              !.heard = [l \in DOMAIN w.heard |->
                  IF l \in Range(w.listeners[eventType]) THEN data ELSE w.heard[l]]]

\* EventManager.on
On(w, eventType, callback) ==
    [w EXCEPT !.listeners[eventType] = Append(@, callback)]

\* a merge in which the value already stored wins: { ...updates, ...this.state }
Merge_StoredWins(old, updates) ==
    [k \in (DOMAIN old) \cup (DOMAIN updates) |->
        IF k \in DOMAIN old THEN old[k] ELSE updates[k]]

\* listeners.findIndex(l => l.callback === callback), 1-based; 0 for -1
FindIndex(regs, callback) ==
    IF \E i \in 1..Len(regs) : regs[i] = callback
    THEN CHOOSE i \in 1..Len(regs) :
            regs[i] = callback /\ \A j \in 1..(i - 1) : regs[j] # callback
    ELSE 0

\* listeners.splice(index, 1)
Splice(regs, index) ==
    [k \in 1..(Len(regs) - 1) |-> IF k < index THEN regs[k] ELSE regs[k + 1]]

\* an off() that removes every registration of the callback
OffList_All(regs, callback) == SelectSeq(regs, LAMBDA r : r # callback)

\* EventManager.off, on the array of one event type
OffList(regs, callback) ==
    IF FindIndex(regs, callback) > 0
    THEN Splice(regs, FindIndex(regs, callback)) ELSE regs

\* EventManager.off
Off(w, eventType, callback) ==
    [w EXCEPT !.listeners[eventType] = OffList(@, callback)]

\* What the callbacks registered by scripts do when called for an event:
\* "plain" returns, "thrower" throws, "once" removes itself with off(),
\* "remover" removes "plain" with off().
BusCallbacks == {"plain", "thrower", "once", "remover"}

RunListener(regs, callback) ==
    CASE callback = "once"    -> [regs |-> OffList(regs, "once"), outcome |-> "returns"]
      [] callback = "remover" -> [regs |-> OffList(regs, "plain"), outcome |-> "returns"]
      [] callback = "thrower" -> [regs |-> regs, outcome |-> "throws"]
      [] OTHER                -> [regs |-> regs, outcome |-> "returns"]

\* an emit() without its try/catch: the exception of a listener leaves forEach
Escapes_Uncaught(outcome) == outcome = "throws"

\* the try/catch of emit() around each listener: no exception leaves it
Escapes(outcome) == FALSE

\* this.listeners.get(eventType).forEach(...): indices 1..n, n the length when
\* forEach began; an index the array no longer has is skipped; the element
\* is read when its index is reached
RECURSIVE ForEach(_, _, _, _, _, _)
ForEach(regs, i, n, data, log, threw) ==
    IF i > n \/ threw
    THEN [regs |-> regs, log |-> log, threw |-> threw]
    ELSE IF i > Len(regs)
    THEN ForEach(regs, i + 1, n, data, log, threw)
    ELSE LET ran == RunListener(regs, regs[i])
         IN ForEach(ran.regs, i + 1, n, data,
                    Append(log, [callback |-> regs[i], data |-> data]),
                    Escapes(ran.outcome))

\* { ...this.state, ...updates }
Merge(old, updates) ==
    [k \in (DOMAIN old) \cup (DOMAIN updates) |->
        IF k \in DOMAIN updates THEN updates[k] ELSE old[k]]

\* StateManager.setState
SetState(w, updates) ==
    LET previousState == w.state
        newState == Merge(w.state, updates)
        notified == [w EXCEPT
            !.state = newState,
            !.delivered = [s \in DOMAIN w.delivered |->
                IF s \in w.subscribers
                THEN [newState |-> newState, previousState |-> previousState]
                ELSE w.delivered[s]]]
    IN Emit(notified, "stateChanged",
            [newState |-> newState, previousState |-> previousState,
             updates |-> updates])

\* a setState whose notification loop has no try/catch
SubscriberEscapes_Uncaught(callback) == callback = "thrower"

\* the try/catch of setState around each subscriber: no exception leaves it
SubscriberEscapes(callback) == FALSE

\* this.subscribers.delete(callback), on the insertion order of the Set
SetDelete(subs, callback) == SelectSeq(subs, LAMBDA s : s # callback)

\* newState: this.state, read when the event object is built (line 188)
EventNewState(current, previousState, updates) == current

\* StateManager.setState with the callbacks of StateCallbacks, which may call
\* setState themselves.  m holds this.state, this.subscribers in insertion
\* order, the trace so far, and whether an exception has left the call.
RECURSIVE SetStateRun(_, _)
RECURSIVE NotifyFrom(_, _, _)
RECURSIVE CallSubscriber(_, _, _)

CallSubscriber(m, callback, previousState) ==
    LET noted == [m EXCEPT !.trace = Append(@,
                     [who |-> callback, newState |-> m.state,
                      previousState |-> previousState])]
    IN IF callback = "setter" /\ m.state["currentView"] # "results"
       THEN SetStateRun(noted, [currentView |-> "results"])
       ELSE [noted EXCEPT !.threw = SubscriberEscapes(callback)]

\* this.subscribers.forEach(...), from the i-th subscriber on
NotifyFrom(m, i, previousState) ==
    IF i > Len(m.subs) \/ m.threw
    THEN m
    ELSE NotifyFrom(CallSubscriber(m, m.subs[i], previousState), i + 1, previousState)

SetStateRun(m, updates) ==
    LET previousState == m.state
        updated == [m EXCEPT !.state = Merge(m.state, updates)]
        notified == NotifyFrom(updated, 1, previousState)
    IN IF notified.threw
       THEN notified
       ELSE [notified EXCEPT
                !.emits = @ + 1,
                !.trace = Append(@,
                    [who |-> "stateChanged",
                     newState |-> EventNewState(notified.state, previousState, updates),
                     previousState |-> previousState,
                     updates |-> updates])]

\* ----------------------------------------------------------- LoadingManager
\* startLoading dereferences overlay.querySelector('.loading-message'): a page
\* whose #loadingOverlay has no such child makes it throw a TypeError.
StartLoadingThrows(w) ==
    w.overlay # "null" /\ page = "overlayNoMessage"

\* LoadingManager.startLoading; when it throws, what it did before throwing
StartLoading(w, loadId) ==
    LET added == [w EXCEPT !.activeLoads = @ \cup {loadId}]
        shown == IF w.overlay # "null"
                 THEN [added EXCEPT !.overlay = "flex"] ELSE added
    IN IF StartLoadingThrows(w)
       THEN shown
       ELSE Emit(SetState(shown, [loading |-> TRUE]), "loadingStarted", loadId)

\* LoadingManager.updateProgress
UpdateProgress(w, loadId) ==
    IF loadId \in w.activeLoads THEN Emit(w, "loadingProgress", loadId) ELSE w

\* the test of stopLoading: this.activeLoads.size === 0
NoActiveLoad(loads) == loads = {}

\* LoadingManager.stopLoading
StopLoading(w, loadId) ==
    LET removed == [w EXCEPT !.activeLoads = @ \ {loadId}]
        hidden == IF removed.overlay # "null"
                  THEN [removed EXCEPT !.overlay = "none"] ELSE removed
    IN Emit(IF NoActiveLoad(removed.activeLoads)
            THEN SetState(hidden, [loading |-> FALSE])
            ELSE removed,
            "loadingStopped", loadId)

\* LoadingManager.stopAllLoading
StopAllLoading(w) ==
    LET cleared == [w EXCEPT !.activeLoads = {}]
        hidden == IF cleared.overlay # "null"
                  THEN [cleared EXCEPT !.overlay = "none"] ELSE cleared
    IN Emit(SetState(hidden, [loading |-> FALSE]), "allLoadingStopped", "undefined")

\* ------------------------------------------------------ NotificationManager
\* show() appends to this.container: with no container it throws.
ShowThrows(w) == ~w.container

\* NotificationManager.show (and success / error / warning / info); when it
\* throws nothing has been shown.
Show(w, type, message, by) ==
    IF ShowThrows(w)
    THEN w
    ELSE Emit([w EXCEPT !.notifShown[by] =
                  Append(@, [type |-> type, message |-> message])],
              "notificationShown", [type |-> type, message |-> message])

\* if (duration > 0): show() starts the auto-close timer
AutoCloses(duration) == duration > 0

\* The notifications as one value n: the Map, the container's children, the
\* pending removal timers and the notificationClosed events emitted, by id.
\* NotificationManager.close: for an id of the Map, one more removal timer
\* and one more notificationClosed event; for another id, nothing.
Close(n, notificationId) ==
    IF notificationId \in n.notifications
    THEN [n EXCEPT !.removeTimers[notificationId] = Append(@, AnimationDuration),
                   !.closedEvents[notificationId] = @ + 1]
    ELSE n

\* a removal callback that takes the element out of the container and
\* leaves the entry in the Map
Removal_KeepsEntry(n, notificationId) ==
    [n EXCEPT !.children = @ \ {notificationId}]

\* the callback of the removal timer of close(): removeChild and Map.delete
Removal(n, notificationId) ==
    [n EXCEPT !.children = @ \ {notificationId},
              !.notifications = @ \ {notificationId}]

\* ----------------------------------------------------- the /generate/ reply
\* The parsed JSON body of a reply: an object with a success boolean and,
\* possibly, an error string.
Responses == {"okA", "okB", "failNoError", "failEmptyError", "failWithError"}
Success(r) == r \in {"okA", "okB"}
ErrorOf(r) ==
    CASE r = "failWithError" -> "quota exceeded"
      [] r = "failEmptyError" -> ""
      [] OTHER -> "undefined"
\* JavaScript falsiness of an error field
Falsy(x) == x \in {"undefined", ""}

\* --------------------------------------------------------------- ApiManager
RECURSIVE Pow2(_)
\* Math.pow(2, n)
Pow2(n) == IF n <= 0 THEN 1 ELSE 2 * Pow2(n - 1)

\* a backoff that doubles once too often
BackoffDelay_Doubled(a) == Pow2(a) * BackoffBase

\* the wait before the retry that follows failed attempt a
BackoffDelay(a) == Pow2(a - 1) * BackoffBase

\* the loop condition of request()
LoopContinues(a) == a <= RetryAttempts

\* an off-by-one test: attempt > this.retryAttempts
IsFinalAttempt_OffByOne(a) == a > RetryAttempts

\* the test of the catch block: attempt === this.retryAttempts
IsFinalAttempt(a) == a = RetryAttempts

\* setTimeout callbacks run once their time has elapsed
TimerDue(remaining) == remaining = 0

\* a request() that forgets clearTimeout(timeoutId)
ClearTimeout_Forgotten(timers, a) == timers

\* clearTimeout(timeoutId) on the timers of one call
ClearTimeout(timers, a) == [timers EXCEPT ![a] = NoTimer]

\* err.message of what an attempt threw
ErrMessage(err) == err.kind

\* the text of the error notification of startGeneration
ErrorText(outcome) ==
    IF outcome.kind = "thrown" THEN ErrMessage(outcome.value)
    ELSE IF outcome.value = "undefined" THEN "TypeError"
    ELSE IF Falsy(ErrorOf(outcome.value)) THEN "Erreur de génération"
    ELSE ErrorOf(outcome.value)

\* a startGeneration that takes any reply for a success
ReplySucceeded_AnyReply(outcome) ==
    outcome.kind = "returned" /\ outcome.value # "undefined"

\* the test of startGeneration on the reply: result.success
ReplySucceeded(outcome) ==
    /\ outcome.kind = "returned"
    /\ outcome.value # "undefined"
    /\ Success(outcome.value)

\* a startGeneration whose catch block also reports the failure through the
\* global error notification
AfterPost_ReportsTwice(w, p, outcome) ==
    LET ok == outcome.kind = "returned" /\ outcome.value # "undefined"
                 /\ Success(outcome.value) /\ ~ShowThrows(w)
        done ==
            IF ok
            THEN Emit(SetState(Show(w, "success", <<"Génération terminée avec succès">>, p),
                               [currentGeneration |-> outcome.value]),
                      "generationCompleted", outcome.value)
            ELSE Show(Show(w, "error", <<"Erreur: ", ErrorText(outcome)>>, p),
                      "error", <<"Une erreur inattendue s'est produite">>, p)
        noted == IF ok
                 THEN [done EXCEPT !.generated[p] = Append(@, outcome.value)]
                 ELSE done
    IN StopLoading(noted, "main_generation")

\* startGeneration from the settling of "await apiManager.post(...)" to its
\* end: the if/else on the reply, the catch block and the finally block
AfterPost(w, p, outcome) ==
    LET ok == ReplySucceeded(outcome) /\ ~ShowThrows(w)
        done ==
            IF ok
            THEN Emit(SetState(Show(w, "success", <<"Génération terminée avec succès">>, p),
                               [currentGeneration |-> outcome.value]),
                      "generationCompleted", outcome.value)
            ELSE Show(w, "error", <<"Erreur: ", ErrorText(outcome)>>, p)
        noted == IF ok
                 THEN [done EXCEPT !.generated[p] = Append(@, outcome.value)]
                 ELSE done
    IN StopLoading(noted, "main_generation")

\* request() settles; its caller continues
Finish(p, outcome, w) ==
    /\ result' = [result EXCEPT ![p] = outcome]
    /\ pc' = [pc EXCEPT ![p] = "done"]
    /\ Commit(IF caller[p] = "generation" THEN AfterPost(w, p, outcome) ELSE w)

\* the catch block of request(): rethrow after the final attempt, else wait
Fail(p, kind) ==
    LET err == [kind |-> kind, attempt |-> attempt[p]]
    IN /\ failed' = [failed EXCEPT ![p] = @ + 1]
       /\ lastError' = [lastError EXCEPT ![p] = err]
       /\ elapsed' = [elapsed EXCEPT ![p] = 0]
       /\ IF IsFinalAttempt(attempt[p])
          THEN /\ Finish(p, [kind |-> "thrown", value |-> err], Emit(World, "apiError", err))
               /\ UNCHANGED <<delayTimer, delays, waited>>
          ELSE /\ delayTimer' = [delayTimer EXCEPT ![p] = BackoffDelay(attempt[p])]
               /\ delays' = [delays EXCEPT ![p] = Append(@, BackoffDelay(attempt[p]))]
               /\ waited' = [waited EXCEPT ![p] = 0]
               /\ pc' = [pc EXCEPT ![p] = "delaying"]
               /\ UNCHANGED <<result, mgrVars>>

\* one pass of the loop body up to "await fetch": a controller, its abort
\* timer, and the fetch
BeginAttempt(p, a) ==
    /\ attempt' = [attempt EXCEPT ![p] = a]
    /\ abortTimer' = [abortTimer EXCEPT ![p][a] = Timeout]
    /\ fetches' = [fetches EXCEPT ![p] = @ + 1]
    /\ elapsed' = [elapsed EXCEPT ![p] = 0]
    /\ pc' = [pc EXCEPT ![p] = "fetching"]

\* ids are handed out in order
NextCall(p) == pc[p] = "idle" /\ \A q \in Calls : q < p => pc[q] # "idle"

\* a script calls apiManager.request(endpoint) itself
CallRequest(p) ==
    /\ NextCall(p)
    /\ p = 1
    /\ caller' = [caller EXCEPT ![p] = "request"]
    /\ BeginAttempt(p, 1)
    /\ UNCHANGED <<mgrVars, bootVars, delayTimer, failed, lastError, delays,
                   waited, result, form, setStateArg>>
    /\ UNCHANGED extVars

\* fetch resolves with a response whose status is not OK
FetchRespondsNotOk(p) ==
    /\ pc[p] = "fetching"
    /\ abortTimer' = [abortTimer EXCEPT ![p] = ClearTimeout(@, attempt[p])]
    /\ Fail(p, "http")
    /\ UNCHANGED <<bootVars, caller, attempt, fetches, form, setStateArg>>
    /\ UNCHANGED extVars

\* fetch resolves with an OK response; request() awaits response.json()
FetchRespondsOk(p) ==
    /\ pc[p] = "fetching"
    /\ abortTimer' = [abortTimer EXCEPT ![p] = ClearTimeout(@, attempt[p])]
    /\ pc' = [pc EXCEPT ![p] = "reading"]
    /\ elapsed' = [elapsed EXCEPT ![p] = 0]
    /\ UNCHANGED <<mgrVars, bootVars, caller, attempt, delayTimer, fetches,
                   failed, lastError, delays, waited, result, form, setStateArg>>
    /\ UNCHANGED extVars

\* fetch rejects (network error): the abort timer of the attempt stays set
FetchRejects(p) ==
    /\ pc[p] = "fetching"
    /\ Fail(p, "network")
    /\ UNCHANGED <<bootVars, caller, attempt, abortTimer, fetches,
                   form, setStateArg>>
    /\ UNCHANGED extVars

\* response.json() resolves: apiSuccess is emitted and the data returned
BodyParsed(p, data) ==
    /\ pc[p] = "reading"
    /\ Finish(p, [kind |-> "returned", value |-> data], Emit(World, "apiSuccess", data))
    /\ UNCHANGED <<bootVars, caller, attempt, abortTimer, delayTimer, fetches,
                   failed, lastError, delays, waited, elapsed, form, setStateArg>>
    /\ UNCHANGED extVars

\* response.json() rejects: the body is not JSON
BodyUnparsable(p) ==
    /\ pc[p] = "reading"
    /\ Fail(p, "parse")
    /\ UNCHANGED <<bootVars, caller, attempt, abortTimer, fetches,
                   form, setStateArg>>
    /\ UNCHANGED extVars

\* the abort timer of the pending fetch fires: controller.abort() rejects it
AbortPending(p) ==
    /\ pc[p] = "fetching"
    /\ TimerDue(abortTimer[p][attempt[p]])
    /\ abortTimer' = [abortTimer EXCEPT ![p][attempt[p]] = NoTimer]
    /\ Fail(p, "abort")
    /\ UNCHANGED <<bootVars, caller, attempt, fetches, form, setStateArg>>
    /\ UNCHANGED extVars

\* an abort timer fires for a fetch that has settled: abort() has no effect
\* beyond the controller's signal
AbortSettled(p, a) ==
    /\ ~(pc[p] = "fetching" /\ attempt[p] = a)
    /\ TimerDue(abortTimer[p][a])
    /\ abortTimer' = [abortTimer EXCEPT ![p][a] = NoTimer]
    /\ UNCHANGED <<mgrVars, bootVars, pc, caller, attempt, delayTimer, fetches,
                   failed, lastError, delays, waited, result, elapsed,
                   form, setStateArg>>
    /\ UNCHANGED extVars

\* the backoff delay ends: attempt++ and the loop condition
DelayEnds(p) ==
    /\ pc[p] = "delaying"
    /\ TimerDue(delayTimer[p])
    /\ delayTimer' = [delayTimer EXCEPT ![p] = NoTimer]
    /\ IF LoopContinues(attempt[p] + 1)
       THEN /\ BeginAttempt(p, attempt[p] + 1)
            /\ UNCHANGED <<result, mgrVars>>
       ELSE /\ attempt' = [attempt EXCEPT ![p] = @ + 1]
            /\ Finish(p, [kind |-> "returned", value |-> "undefined"], World)
            /\ UNCHANGED <<abortTimer, fetches, elapsed>>
    /\ UNCHANGED <<bootVars, caller, failed, lastError, delays, waited,
                   form, setStateArg>>
    /\ UNCHANGED extVars

\* ---------------------------------------------------------------- time
ActiveTimers ==
    (UNION {{abortTimer[p][a] : a \in Attempts} : p \in Calls}
        \cup {delayTimer[p] : p \in Calls}) \ {NoTimer}

RECURSIVE SetMin(_)
SetMin(S) ==
    LET x == CHOOSE x \in S : TRUE
    IN IF S = {x} THEN x
       ELSE LET m == SetMin(S \ {x}) IN IF x < m THEN x ELSE m

Elapse(r, d) == IF r = NoTimer THEN NoTimer ELSE r - d

\* d ms pass; no pending timer is overrun
Tick(d) ==
    /\ d > 0
    /\ ActiveTimers # {}
    /\ \A r \in ActiveTimers : d <= r
    /\ abortTimer' = [p \in Calls |-> [a \in Attempts |-> Elapse(abortTimer[p][a], d)]]
    /\ delayTimer' = [p \in Calls |-> Elapse(delayTimer[p], d)]
    /\ elapsed' = [p \in Calls |->
          IF pc[p] = "fetching" THEN elapsed[p] + d ELSE elapsed[p]]
    /\ waited' = [p \in Calls |->
          IF pc[p] = "delaying" THEN waited[p] + d ELSE waited[p]]
    /\ UNCHANGED <<mgrVars, bootVars, pc, caller, attempt, fetches, failed,
                   lastError, delays, result, form, setStateArg>>
    /\ UNCHANGED extVars

\* the time to the next timer
ToNextTimer == IF ActiveTimers = {} THEN {} ELSE {SetMin(ActiveTimers)}

\* the amounts by which time passes in one step
TickAmounts == {TickStep} \cup ToNextTimer

\* ------------------------------------------------------------ initial state
Pages == {"noOverlay", "overlay", "overlayNoMessage"}
Subs == {"s1", "s2"}
Callbacks == {"l1"}
NoError == [kind |-> "none", attempt |-> 0]
NoResult == [kind |-> "none", value |-> "none"]

\* the managers as constructed when the script has been evaluated
NewManagers ==
    [state |-> APP_STATE,
     subscribers |-> {},
     delivered |-> [s \in Subs |-> [newState |-> APP_STATE, previousState |-> APP_STATE]],
     listeners |-> [e \in EventTypes |-> <<>>],
     heard |-> [l \in Callbacks |-> "nothing"],
     emitCount |-> [e \in EventTypes |-> 0],
     activeLoads |-> {},
     overlay |-> "null",
     container |-> FALSE,
     notifShown |-> [by \in 0..MaxCalls |-> <<>>],
     generated |-> [p \in Calls |-> <<>>]]

ManagersAre(w) ==
    /\ state = w.state
    /\ subscribers = w.subscribers
    /\ delivered = w.delivered
    /\ listeners = w.listeners
    /\ heard = w.heard
    /\ emitCount = w.emitCount
    /\ activeLoads = w.activeLoads
    /\ overlay = w.overlay
    /\ container = w.container
    /\ notifShown = w.notifShown
    /\ generated = w.generated

InitBoot ==
    /\ initialized = FALSE
    /\ modules = {}
    /\ initPc = "start"
    /\ modIdx = 0
    /\ attempted = <<>>
    /\ settled = <<>>
    /\ domListeners = {}
    /\ initError = "none"

InitCalls ==
    /\ pc = [p \in Calls |-> "idle"]
    /\ caller = [p \in Calls |-> "none"]
    /\ attempt = [p \in Calls |-> 0]
    /\ abortTimer = [p \in Calls |-> [a \in Attempts |-> NoTimer]]
    /\ delayTimer = [p \in Calls |-> NoTimer]
    /\ fetches = [p \in Calls |-> 0]
    /\ failed = [p \in Calls |-> 0]
    /\ lastError = [p \in Calls |-> NoError]
    /\ delays = [p \in Calls |-> <<>>]
    /\ waited = [p \in Calls |-> 0]
    /\ result = [p \in Calls |-> NoResult]
    /\ elapsed = [p \in Calls |-> 0]
    /\ form = [p \in Calls |-> "none"]
    /\ setStateArg = <<>>

\* ------------------------------------------------------------------ Logger
Methods == {"debug", "info", "warn", "error"}

\* this.levels
Levels == [debug |-> 0, info |-> 1, warn |-> 2, error |-> 3]

\* new Logger(level): this.levels[level] || 1
NewLogger(level) ==
    [currentLevel |-> IF level \in DOMAIN Levels /\ Levels[level] # 0
                      THEN Levels[level] ELSE 1,
     level |-> "undefined"]

\* the tests of debug / info / warn / error: this.currentLevel <= this.levels.<method>
Writes(lg, method) == lg.currentLevel <= Levels[method]

\* one call of logger.<method>(message), made with the logger lg
Logged(calls, method) == [calls EXCEPT ![method] = @ + 1]
Written(lg, out, method) ==
    IF Writes(lg, method) THEN [out EXCEPT ![method] = @ + 1] ELSE out

\* const logger = new Logger(APP_CONFIG.debug.logLevel), debug.enabled: false
InitLog ==
    /\ logger = NewLogger("info")
    /\ debugEnabled = FALSE
    /\ logCalls = [m \in Methods |-> 0]
    /\ console = [m \in Methods |-> 0]

\* no keydown event handled yet
InitKeys ==
    /\ keysPressed = 0
    /\ lastKey = "none"
    /\ prevented = FALSE

\* no emit() and no off() made by a script yet
InitBus ==
    /\ called = <<>>
    /\ lastEmit = [type |-> "none", data |-> "none", threw |-> FALSE]
    /\ lastOff = [type |-> "none", callback |-> "none", index |-> 0, count |-> 0]

\* Callbacks that scripts subscribe: "plain" returns, "thrower" throws,
\* "setter" calls setState({ currentView: 'results' }) when the state it is
\* given has another currentView.
StateCallbacks == {"plain", "thrower", "setter"}

\* no subscribe() and no setState() made by such a script yet
InitSubs ==
    /\ subOrder = <<>>
    /\ unsubCalls = [s \in StateCallbacks |-> 0]
    /\ trace = <<>>

\* show() arguments: the duration in ms
Durations == {-1, 0, 2 * AnimationDuration}
NotifIds == 1..MaxNotifs
NoNote == [shown |-> FALSE, duration |-> 0, age |-> 0]

\* new NotificationManager(): an empty Map; nothing shown, no timer pending
InitNotif ==
    /\ notifications = {}
    /\ children = {}
    /\ note = [id \in NotifIds |-> NoNote]
    /\ autoTimer = [id \in NotifIds |-> NoTimer]
    /\ removeTimers = [id \in NotifIds |-> <<>>]
    /\ closeCalls = [id \in NotifIds |-> 0]
    /\ closedEvents = [id \in NotifIds |-> 0]

InitExt ==
    /\ InitLog
    /\ InitKeys
    /\ InitBus
    /\ InitSubs
    /\ InitNotif

\* the script has been evaluated and no document event handled yet; the
\* page is one with no #loadingOverlay
InitApi ==
    /\ page = "noOverlay"
    /\ ManagersAre(NewManagers)
    /\ InitBoot
    /\ InitCalls
    /\ InitExt

\* the script has been evaluated; DOMContentLoaded has not been handled yet
Init ==
    /\ page \in Pages
    /\ ManagersAre(NewManagers)
    /\ InitBoot
    /\ InitCalls
    /\ InitExt

\* --------------------------------------------- MalaysiaGeneratorApp: boot
ModulesToLoad ==
    <<"formValidator", "mapController", "dataVisualizer", "osmIntegration",
      "exportManager">>

AllListeners == {"global", "form", "buttons", "tooltips", "responsive"}

\* loadingManager.initialize() and notificationManager.initialize(): the
\* overlay and the container are found in the page or created
InitializeManagers(w) ==
    [w EXCEPT !.overlay = "css", !.container = TRUE]

\* initialize() after loadModules: the listeners, the UI (setupResponsive
\* stores the viewport), the flags, the notification and appInitialized
FinishInitialize(w, mobile) ==
    LET ui == Emit(SetState(w, [isMobile |-> mobile]), "viewportChanged", mobile)
        marked == SetState(ui, [initialized |-> TRUE])
    IN Emit(Show(marked, "success", <<"Application chargée avec succès">>, 0),
            "appInitialized", "null")

\* a catch block of initialize() that shows nothing
InitializeCatch_Silent(w) == w

\* the catch block of initialize(): one error notification
InitializeCatch(w) ==
    Show(w, "error", <<"Erreur lors du chargement de l'application">>, 0)

\* what initialize() rejects with: the error caught, unless the catch block
\* itself throws
CaughtOrNew(w, error) ==
    IF ShowThrows(w) THEN "TypeError: container" ELSE error

\* a script.onload that keeps the module whatever window[name] holds
ModuleKept_Always(registered) == TRUE

\* the test of script.onload: window[name] is set
ModuleKept(registered) == registered

\* DOMContentLoaded: initialize() up to its first await, in loadModule
DomContentLoaded ==
    /\ initPc = "start"
    /\ LET ready == InitializeManagers(World)
           loading == StartLoading(ready, "modules_loading")
       IN IF StartLoadingThrows(ready)
          THEN /\ Commit(InitializeCatch(loading))
               /\ initPc' = "failed"
               /\ initError' = CaughtOrNew(loading, "TypeError: loading-message")
               /\ UNCHANGED <<modIdx, attempted>>
          ELSE /\ Commit(UpdateProgress(loading, "modules_loading"))
               /\ initPc' = "loadingModule"
               /\ modIdx' = 1
               /\ attempted' = <<ModulesToLoad[1]>>
               /\ UNCHANGED initError
    /\ UNCHANGED <<page, initialized, modules, settled, domListeners, callVars>>
    /\ UNCHANGED extVars

\* loadModules once the script of module modIdx has settled, and, after the
\* last one, the rest of initialize()
AfterModule(mobile) ==
    IF modIdx < Len(ModulesToLoad)
    THEN /\ Commit(UpdateProgress(World, "modules_loading"))
         /\ modIdx' = modIdx + 1
         /\ attempted' = Append(attempted, ModulesToLoad[modIdx + 1])
         /\ UNCHANGED <<initPc, initialized, domListeners, initError>>
    ELSE LET stopped == StopLoading(World, "modules_loading")
         IN /\ domListeners' = AllListeners
            /\ initialized' = TRUE
            /\ IF ShowThrows(stopped)
               THEN /\ Commit(SetState(Emit(SetState(stopped, [isMobile |-> mobile]),
                                            "viewportChanged", mobile),
                                       [initialized |-> TRUE]))
                    /\ initPc' = "failed"
                    /\ initError' = "TypeError: container"
               ELSE /\ Commit(FinishInitialize(stopped, mobile))
                    /\ initPc' = "ready"
                    /\ UNCHANGED initError
            /\ UNCHANGED <<modIdx, attempted>>

\* script.onload: the module is kept when it registered itself on window
ScriptLoaded(registered, mobile) ==
    /\ initPc = "loadingModule"
    /\ modules' = IF ModuleKept(registered)
                  THEN modules \cup {ModulesToLoad[modIdx]} ELSE modules
    /\ settled' = Append(settled, IF registered THEN "registered" ELSE "unregistered")
    /\ AfterModule(mobile)
    /\ UNCHANGED <<page, callVars>>
    /\ UNCHANGED extVars

\* script.onerror: loadModule rejects, loadModules goes on
ScriptError(mobile) ==
    /\ initPc = "loadingModule"
    /\ settled' = Append(settled, "error")
    /\ AfterModule(mobile)
    /\ UNCHANGED <<page, modules, callVars>>
    /\ UNCHANGED extVars

NextBoot ==
    \/ DomContentLoaded
    \/ \E registered \in BOOLEAN, mobile \in BOOLEAN : ScriptLoaded(registered, mobile)
    \/ \E mobile \in BOOLEAN : ScriptError(mobile)

SpecBoot == Init /\ [][NextBoot]_vars

\* --------------------------------------- MalaysiaGeneratorApp: generation
\* How this.getFormData() and this.validateForm(formData) end: one of them
\* throws, or validation reports valid = false, or valid = true.
FormOutcomes == {"throws", "invalid", "valid"}

\* a startGeneration that goes on whatever the validation reports
FormAccepted_Unchecked(outcome) == outcome # "throws"

\* the test of startGeneration on the validation: validation.valid
FormAccepted(outcome) == outcome = "valid"

\* startGeneration when it ends before the API call: the notification of the
\* early return or of the catch block, then the finally block
EndEarly(w, p, message) ==
    StopLoading(Show(w, "error", message, p), "main_generation")

\* startGeneration up to "await apiManager.post('/generate/', formData)"
StartGeneration(p, outcome) ==
    /\ NextCall(p)
    /\ form' = [form EXCEPT ![p] = outcome]
    /\ caller' = [caller EXCEPT ![p] = "generation"]
    /\ IF ~FormAccepted(outcome)
       THEN /\ Commit(EndEarly(World, p,
                   IF outcome = "throws"
                   THEN <<"Erreur: ", "TypeError">>
                   ELSE <<"Veuillez corriger les erreurs du formulaire">>))
            /\ pc' = [pc EXCEPT ![p] = "done"]
            /\ UNCHANGED <<attempt, abortTimer, fetches, elapsed>>
       ELSE IF StartLoadingThrows(World)
       THEN /\ Commit(EndEarly(StartLoading(World, "main_generation"), p,
                               <<"Erreur: ", "TypeError">>))
            /\ pc' = [pc EXCEPT ![p] = "done"]
            /\ UNCHANGED <<attempt, abortTimer, fetches, elapsed>>
       ELSE /\ Commit(StartLoading(World, "main_generation"))
            /\ BeginAttempt(p, 1)
    /\ UNCHANGED <<bootVars, delayTimer, failed, lastError, delays, waited,
                   result, setStateArg>>

\* click on #generateBtn
ClickGenerate(p, outcome) ==
    /\ "buttons" \in domListeners
    /\ StartGeneration(p, outcome)
    /\ UNCHANGED extVars

\* submit of #generationForm: handleFormSubmit starts the generation
HandleFormSubmit(p, outcome) ==
    /\ "form" \in domListeners
    /\ StartGeneration(p, outcome)
    /\ UNCHANGED extVars

\* the application after a bootstrap in which every module registered, on a
\* page that holds a complete overlay, in a desktop viewport
ReadyManagers ==
    LET loading == UpdateProgress(StartLoading(InitializeManagers(NewManagers),
                                               "modules_loading"), "modules_loading")
        loaded == UpdateProgress(UpdateProgress(UpdateProgress(UpdateProgress(
                      loading, "modules_loading"), "modules_loading"),
                      "modules_loading"), "modules_loading")
    IN FinishInitialize(StopLoading(loaded, "modules_loading"), FALSE)

InitApp ==
    /\ page = "overlay"
    /\ ManagersAre(ReadyManagers)
    /\ initialized = TRUE
    /\ modules = {ModulesToLoad[i] : i \in 1..Len(ModulesToLoad)}
    /\ initPc = "ready"
    /\ modIdx = Len(ModulesToLoad)
    /\ attempted = ModulesToLoad
    /\ settled = [i \in 1..Len(ModulesToLoad) |-> "registered"]
    /\ domListeners = AllListeners
    /\ initError = "none"
    /\ InitCalls
    /\ InitExt

NextApp ==
    \/ \E p \in Calls, outcome \in FormOutcomes : ClickGenerate(p, outcome)
    \/ \E p \in Calls, outcome \in FormOutcomes : HandleFormSubmit(p, outcome)
    \/ \E p \in Calls : FetchRespondsNotOk(p)
    \/ \E p \in Calls : FetchRespondsOk(p)
    \/ \E p \in Calls : FetchRejects(p)
    \/ \E p \in Calls, data \in Responses : BodyParsed(p, data)
    \/ \E p \in Calls : BodyUnparsable(p)
    \/ \E p \in Calls : AbortPending(p)
    \/ \E p \in Calls, a \in Attempts : AbortSettled(p, a)
    \/ \E p \in Calls : DelayEnds(p)
    \/ \E d \in ToNextTimer : Tick(d)

SpecApp == InitApp /\ [][NextApp]_vars

\* ------------------------------------------------ StateManager on its own
\* the updates that scripts pass to setState: some keys of the state, or the
\* key isMobile that APP_STATE does not have, or none
UpdateChoices ==
    {<<>>,
     [loading |-> TRUE], [loading |-> FALSE],
     [currentView |-> "results"],
     [isMobile |-> TRUE],
     [loading |-> TRUE, currentView |-> "form"],
     [isMobile |-> FALSE, currentGeneration |-> "okA"]}

\* a script calls stateManager.setState(updates)
SetStateCall(updates) ==
    /\ emitCount["stateChanged"] < MaxSetStates
    /\ setStateArg' = updates
    /\ Commit(SetState(World, updates))
    /\ UNCHANGED <<bootVars, reqVars, form>>
    /\ UNCHANGED extVars

\* a script calls stateManager.subscribe(callback)
SubscribeCall(s) ==
    /\ s \notin subscribers
    /\ Commit([World EXCEPT !.subscribers = @ \cup {s}])
    /\ UNCHANGED <<bootVars, callVars>>
    /\ UNCHANGED extVars

\* a script calls the function that subscribe(callback) returned
UnsubscribeCall(s) ==
    /\ s \in subscribers
    /\ Commit([World EXCEPT !.subscribers = @ \ {s}])
    /\ UNCHANGED <<bootVars, callVars>>
    /\ UNCHANGED extVars

\* a script calls eventManager.on('stateChanged', callback)
OnStateChanged(l) ==
    /\ l \notin Range(listeners["stateChanged"])
    /\ Commit(On(World, "stateChanged", l))
    /\ UNCHANGED <<bootVars, callVars>>
    /\ UNCHANGED extVars

NextState ==
    \/ \E updates \in UpdateChoices : SetStateCall(updates)
    \/ \E s \in Subs : SubscribeCall(s)
    \/ \E s \in Subs : UnsubscribeCall(s)
    \/ \E l \in Callbacks : OnStateChanged(l)

SpecState == InitApi /\ [][NextState]_vars

\* ------------------------------------------- ApiManager.request on its own
NextApi ==
    \/ \E p \in Calls : CallRequest(p)
    \/ \E p \in Calls : FetchRespondsNotOk(p)
    \/ \E p \in Calls : FetchRespondsOk(p)
    \/ \E p \in Calls : FetchRejects(p)
    \/ \E p \in Calls, data \in Responses : BodyParsed(p, data)
    \/ \E p \in Calls : BodyUnparsable(p)
    \/ \E p \in Calls : AbortPending(p)
    \/ \E p \in Calls, a \in Attempts : AbortSettled(p, a)
    \/ \E p \in Calls : DelayEnds(p)
    \/ \E d \in TickAmounts : Tick(d)

SpecApi == InitApi /\ [][NextApi]_vars

\* ------------------------------------------------- Logger and the debug mode
LogCallsMade ==
    logCalls["debug"] + logCalls["info"] + logCalls["warn"] + logCalls["error"]

\* a script (or the console) calls logger.<method>(message)
LogCall(method) ==
    /\ LogCallsMade < MaxLogCalls
    /\ logCalls' = Logged(logCalls, method)
    /\ console' = Written(logger, console, method)
    /\ UNCHANGED <<mgrVars, bootVars, callVars, logger, debugEnabled, notLogVars>>

\* the console command of the welcome message: MalaysiaGenerator.logger.level = l
AssignLevel(l) ==
    /\ logger.level # l
    /\ logger' = [logger EXCEPT !.level = l]
    /\ UNCHANGED <<mgrVars, bootVars, callVars, debugEnabled, logCalls, console,
                   notLogVars>>

\* toggleDebugMode (Ctrl+D, or the console): the flag, the level, the
\* notification (show() logs at debug level) and the info message
ToggleEffects ==
    /\ debugEnabled' = ~debugEnabled
    /\ LET lg == [logger EXCEPT !.currentLevel =
                     IF ~debugEnabled THEN Levels["debug"] ELSE Levels["info"]]
       IN /\ logger' = lg
          /\ Commit(Show(World, "info",
                         <<IF ~debugEnabled THEN "Mode debug activé"
                           ELSE "Mode debug désactivé">>, 0))
          /\ logCalls' = Logged(Logged(logCalls, "debug"), "info")
          /\ console' = Written(lg, Written(lg, console, "debug"), "info")

\* a script (or the console) calls app.toggleDebugMode()
ToggleDebugMode ==
    /\ LogCallsMade + 2 <= MaxLogCalls
    /\ ~ShowThrows(World)
    /\ ToggleEffects
    /\ UNCHANGED <<bootVars, callVars, notLogVars>>

NextLog ==
    \/ \E method \in Methods : LogCall(method)
    \/ \E l \in Methods : AssignLevel(l)
    \/ ToggleDebugMode

SpecLog == InitApp /\ [][NextLog]_vars

\* ------------------------------------------------- the keydown listener
\* the keys told apart by handleGlobalKeyboard: event.key with event.ctrlKey
Keys == {"F5", "Ctrl+r", "r", "Escape", "Ctrl+d"}

\* event.key === 'F5' || (event.ctrlKey && event.key === 'r')
IsReload(key) == key \in {"F5", "Ctrl+r"}

\* the test of line 740: a reload key and stateManager.getState().loading
ReloadBlocked(key, st) == IsReload(key) /\ st["loading"] = TRUE

\* a keydown event while the generation workflow runs: handleGlobalKeyboard
KeyDown(key) ==
    /\ "global" \in domListeners
    /\ keysPressed < MaxKeys
    /\ keysPressed' = keysPressed + 1
    /\ lastKey' = key
    /\ IF key = "Ctrl+d"
       THEN /\ prevented' = TRUE
            /\ ToggleEffects
       ELSE /\ prevented' = ReloadBlocked(key, state)
            /\ LET esc == IF key = "Escape"
                          THEN Emit(World, "escapePressed", "undefined") ELSE World
               IN Commit(IF ReloadBlocked(key, esc.state)
                         THEN Show(esc, "warning",
                                   <<"Génération en cours - rechargement bloqué">>, 0)
                         ELSE esc)
            /\ UNCHANGED logVars
    /\ UNCHANGED <<bootVars, callVars, busVars, subVars, notifVars>>

\* The generation workflow with a keyboard, on a network that answers every
\* request at its first attempt (the retry paths are those of NextApp).
NextKeys ==
    \/ \E p \in Calls, outcome \in FormOutcomes : ClickGenerate(p, outcome)
    \/ \E p \in Calls, outcome \in FormOutcomes : HandleFormSubmit(p, outcome)
    \/ \E p \in Calls : FetchRespondsOk(p)
    \/ \E p \in Calls, data \in Responses : BodyParsed(p, data)
    \/ \E key \in Keys : KeyDown(key)

SpecKeys == InitApp /\ [][NextKeys]_vars

\* --------------------------------------------- EventManager on its own
BusTypes == {"escapePressed", "viewportChanged"}
\* the data scripts emit
EventData == {"d1"}

Registrations == Len(listeners["escapePressed"]) + Len(listeners["viewportChanged"])
BusEmits == emitCount["escapePressed"] + emitCount["viewportChanged"]

\* a script calls eventManager.on(eventType, callback)
BusOn(eventType, callback) ==
    /\ Registrations < MaxListeners
    /\ Commit(On(World, eventType, callback))
    /\ UNCHANGED <<bootVars, callVars, notBusVars, busVars>>

\* a script calls eventManager.off(eventType, callback)
BusOff(eventType, callback) ==
    /\ lastOff.count < MaxOffs
    /\ lastOff' = [type |-> eventType, callback |-> callback,
                   index |-> FindIndex(listeners[eventType], callback),
                   count |-> lastOff.count + 1]
    /\ Commit(Off(World, eventType, callback))
    /\ UNCHANGED <<bootVars, callVars, notBusVars, called, lastEmit>>

\* a script calls eventManager.emit(eventType, data)
BusEmit(eventType, data) ==
    /\ BusEmits < MaxEmits
    /\ LET regs == listeners[eventType]
           run == ForEach(regs, 1, Len(regs), data, <<>>, FALSE)
       IN /\ called' = run.log
          /\ lastEmit' = [type |-> eventType, data |-> data, threw |-> run.threw]
          /\ Commit([World EXCEPT !.listeners[eventType] = run.regs,
                                  !.emitCount[eventType] = @ + 1])
    /\ UNCHANGED <<bootVars, callVars, notBusVars, lastOff>>

NextBus ==
    \/ \E eventType \in BusTypes, callback \in BusCallbacks : BusOn(eventType, callback)
    \/ \E eventType \in BusTypes, callback \in BusCallbacks : BusOff(eventType, callback)
    \/ \E eventType \in BusTypes, data \in EventData : BusEmit(eventType, data)

SpecBus == InitApi /\ [][NextBus]_vars

\* ------------------------------------ StateManager with active subscribers
SubsUpdates ==
    {[loading |-> TRUE], [currentView |-> "form"],
     [currentView |-> "map", loading |-> FALSE]}

\* a script calls stateManager.subscribe(callback): Set.add
SubsSubscribe(callback) ==
    /\ ~\E i \in 1..Len(subOrder) : subOrder[i] = callback
    /\ subOrder' = Append(subOrder, callback)
    /\ subscribers' = subscribers \cup {callback}
    /\ UNCHANGED <<state, delivered, listeners, heard, emitCount, activeLoads,
                   overlay, container, notifShown, generated>>
    /\ UNCHANGED <<bootVars, callVars, logVars, keyVars, busVars, unsubCalls, trace,
                   notifVars>>

\* a script calls the function that the first subscribe(callback) returned:
\* Set.delete. Every unsubscribe function of a callback runs this same
\* delete, so the model removes subscriptions through that one function; it
\* exists once the callback has been subscribed.
SubsUnsubscribe(callback) ==
    /\ callback \in subscribers \/ unsubCalls[callback] > 0
    /\ unsubCalls[callback] < MaxUnsubs
    /\ unsubCalls' = [unsubCalls EXCEPT ![callback] = @ + 1]
    /\ subOrder' = SetDelete(subOrder, callback)
    /\ subscribers' = Range(SetDelete(subOrder, callback))
    /\ UNCHANGED <<state, delivered, listeners, heard, emitCount, activeLoads,
                   overlay, container, notifShown, generated>>
    /\ UNCHANGED <<bootVars, callVars, logVars, keyVars, busVars, trace, notifVars>>

\* a script calls stateManager.setState(updates)
SubsSetState(updates) ==
    /\ emitCount["stateChanged"] < MaxSetStates
    /\ LET run == SetStateRun([state |-> state, subs |-> subOrder, trace |-> <<>>,
                               threw |-> FALSE, emits |-> 0], updates)
       IN /\ state' = run.state
          /\ trace' = IF run.threw
                      THEN Append(run.trace, [who |-> "exception"])
                      ELSE run.trace
          /\ emitCount' = [emitCount EXCEPT !["stateChanged"] = @ + run.emits]
    /\ setStateArg' = updates
    /\ UNCHANGED <<subscribers, delivered, listeners, heard, activeLoads,
                   overlay, container, notifShown, generated>>
    /\ UNCHANGED <<bootVars, reqVars, form, logVars, keyVars, busVars, notifVars, subOrder,
                   unsubCalls>>

NextSubs ==
    \/ \E callback \in StateCallbacks : SubsSubscribe(callback)
    \/ \E callback \in StateCallbacks : SubsUnsubscribe(callback)
    \/ \E updates \in SubsUpdates : SubsSetState(updates)

SpecSubs == InitApi /\ [][NextSubs]_vars

\* ------------------------------------------- LoadingManager on its own
LoadIds == {"main_generation", "modules_loading", "preview"}

LoadCallsMade ==
    emitCount["loadingStarted"] + emitCount["loadingStopped"]
        + emitCount["allLoadingStopped"]

\* a script calls loadingManager.startLoading(loadId)
StartLoadingCall(loadId) ==
    /\ LoadCallsMade < MaxLoadCalls
    /\ Commit(StartLoading(World, loadId))
    /\ UNCHANGED <<bootVars, callVars, extVars>>

\* a script calls loadingManager.stopLoading(loadId)
StopLoadingCall(loadId) ==
    /\ LoadCallsMade < MaxLoadCalls
    /\ Commit(StopLoading(World, loadId))
    /\ UNCHANGED <<bootVars, callVars, extVars>>

\* a script calls loadingManager.stopAllLoading()
StopAllLoadingCall ==
    /\ LoadCallsMade < MaxLoadCalls
    /\ Commit(StopAllLoading(World))
    /\ UNCHANGED <<bootVars, callVars, extVars>>

\* loadingManager.initialize() and notificationManager.initialize() have run
InitLoad ==
    /\ page \in Pages
    /\ ManagersAre(InitializeManagers(NewManagers))
    /\ InitBoot
    /\ InitCalls
    /\ InitExt

NextLoad ==
    \/ \E loadId \in LoadIds : StartLoadingCall(loadId)
    \/ \E loadId \in LoadIds : StopLoadingCall(loadId)
    \/ StopAllLoadingCall

SpecLoad == InitLoad /\ [][NextLoad]_vars

\* ------------------------------ NotificationManager with its timers
\* Time passes in steps of the animation delay; a timer is due when it has
\* 0 ms left, and time does not pass while a timer is due.
Notifs ==
    [notifications |-> notifications, children |-> children,
     removeTimers |-> removeTimers, closedEvents |-> closedEvents]

\* the state left by a close(id), with the event it emits when it emits one
CommitClose(notificationId) ==
    LET n == Close(Notifs, notificationId)
    IN /\ notifications' = n.notifications
       /\ children' = n.children
       /\ removeTimers' = n.removeTimers
       /\ closedEvents' = n.closedEvents
       /\ Commit(IF notificationId \in notifications
                 THEN Emit(World, "notificationClosed", [id |-> notificationId])
                 ELSE World)

NotifTimerDue ==
    \E id \in NotifIds :
        \/ TimerDue(autoTimer[id])
        \/ \E k \in 1..Len(removeTimers[id]) : TimerDue(removeTimers[id][k])

NotifTimerPending ==
    \E id \in NotifIds : autoTimer[id] # NoTimer \/ removeTimers[id] # <<>>

Later(ms) == IF ms > AnimationDuration THEN ms - AnimationDuration ELSE 0

\* a script calls notificationManager.show(message, 'info', duration); the
\* ids are distinct (Date.now() and Math.random())
NotifShow(duration) ==
    /\ container
    /\ \E id \in NotifIds :
          /\ ~note[id].shown
          /\ \A other \in NotifIds : other < id => note[other].shown
          /\ note' = [note EXCEPT ![id] =
                         [shown |-> TRUE, duration |-> duration, age |-> 0]]
          /\ notifications' = notifications \cup {id}
          /\ children' = children \cup {id}
          /\ autoTimer' = [autoTimer EXCEPT ![id] =
                              IF AutoCloses(duration) THEN duration ELSE NoTimer]
    /\ Commit(Show(World, "info", <<"message">>, 0))
    /\ UNCHANGED <<removeTimers, closeCalls, closedEvents>>
    /\ UNCHANGED <<bootVars, callVars, notNotifVars>>

\* the user clicks the close button of a notification, or a script calls
\* notificationManager.close(id), with an id of the Map or another one
NotifClose(notificationId) ==
    /\ closeCalls[notificationId] < MaxCloses
    /\ closeCalls' = [closeCalls EXCEPT ![notificationId] = @ + 1]
    /\ CommitClose(notificationId)
    /\ UNCHANGED <<note, autoTimer>>
    /\ UNCHANGED <<bootVars, callVars, notNotifVars>>

\* the auto-close timer of show() fires: this.close(notificationId)
NotifAutoClose(notificationId) ==
    /\ autoTimer[notificationId] = 0
    /\ autoTimer' = [autoTimer EXCEPT ![notificationId] = NoTimer]
    /\ CommitClose(notificationId)
    /\ UNCHANGED <<note, closeCalls>>
    /\ UNCHANGED <<bootVars, callVars, notNotifVars>>

\* the oldest removal timer of close() fires
NotifRemove(notificationId) ==
    /\ removeTimers[notificationId] # <<>>
    /\ Head(removeTimers[notificationId]) = 0
    /\ LET n == Removal([Notifs EXCEPT !.removeTimers[notificationId] = Tail(@)],
                        notificationId)
       IN /\ notifications' = n.notifications
          /\ children' = n.children
          /\ removeTimers' = n.removeTimers
    /\ UNCHANGED <<note, autoTimer, closeCalls, closedEvents>>
    /\ UNCHANGED <<mgrVars, bootVars, callVars, notNotifVars>>

\* the animation delay passes
NotifTick ==
    /\ ~NotifTimerDue
    /\ NotifTimerPending \/ \E id \in NotifIds : note[id].shown /\ note[id].age < MaxAge
    /\ autoTimer' = [id \in NotifIds |->
                        IF autoTimer[id] = NoTimer THEN NoTimer
                        ELSE Later(autoTimer[id])]
    /\ removeTimers' = [id \in NotifIds |->
                           [k \in 1..Len(removeTimers[id]) |->
                               Later(removeTimers[id][k])]]
    /\ note' = [id \in NotifIds |->
                   IF note[id].shown /\ note[id].age < MaxAge
                   THEN [note[id] EXCEPT !.age = @ + 1] ELSE note[id]]
    /\ UNCHANGED <<notifications, children, closeCalls, closedEvents>>
    /\ UNCHANGED <<mgrVars, bootVars, callVars, notNotifVars>>

NextNotif ==
    \/ \E duration \in Durations : NotifShow(duration)
    \/ \E id \in NotifIds : NotifClose(id)
    \/ \E id \in NotifIds : NotifAutoClose(id)
    \/ \E id \in NotifIds : NotifRemove(id)
    \/ NotifTick

\* a timer that is due fires, and time passes while none is due
NotifFairness ==
    /\ WF_vars(NotifTick)
    /\ \A id \in NotifIds : WF_vars(NotifAutoClose(id))
    /\ \A id \in NotifIds : WF_vars(NotifRemove(id))

SpecNotif == InitApp /\ [][NextNotif]_vars /\ NotifFairness

\* ================================================================== claims
Requests == {p \in Calls : caller[p] = "request"}
InFlight(p) == pc[p] \in {"fetching", "reading", "delaying"}

\* C1: one request() call makes at most 3 fetch attempts; it returns the
\* parsed data of the first attempt that succeeds, having made one fetch per
\* failed attempt plus that one, and makes no attempt afterwards; when all 3
\* attempts have failed it has rethrown the error of the third attempt, after
\* exactly 3 fetches.
C1_Settled ==
    \A p \in Requests :
        /\ fetches[p] <= 3
        /\ failed[p] <= 3
        /\ result[p].kind = "returned" =>
              /\ result[p].value \in Responses
              /\ fetches[p] = failed[p] + 1
              /\ pc[p] = "done"
        /\ result[p].kind = "thrown" =>
              /\ fetches[p] = 3
              /\ failed[p] = 3
              /\ result[p].value = lastError[p]
              /\ result[p].value.attempt = 3
              /\ pc[p] = "done"
        /\ failed[p] = 3 => result[p].kind = "thrown"
        /\ pc[p] = "done" => result[p].kind \in {"returned", "thrown"}

C1_NoAttemptAfter ==
    \A p \in Calls :
        result[p].kind # "none" => fetches'[p] = fetches[p] /\ result'[p] = result[p]

\* C1: every state satisfies C1_Settled (at most 3 fetches, the outcome is
\* the first success or the third error) and no step makes a fetch for a
\* call that has settled.
C1_AtMostThreeAttempts == []C1_Settled /\ [][C1_NoAttemptAfter]_vars

C1_Witness ==
    \E p \in Requests :
        result[p].kind = "thrown" /\ fetches[p] = 3 /\ lastError[p].kind = "parse"

\* C2: the waits asked after failed attempts 1 and 2 are 1000 ms and 2000 ms;
\* attempt k + 1 is started only when the wait after attempt k has elapsed in
\* full; no wait is asked after the final failed attempt.
C2_Waits ==
    \A p \in Requests :
        /\ delays[p] \in {<<>>, <<1000>>, <<1000, 2000>>}
        /\ Len(delays[p]) = IF result[p].kind = "thrown" THEN failed[p] - 1 ELSE failed[p]
        /\ pc[p] = "delaying" =>
              /\ attempt[p] = Len(delays[p])
              /\ delayTimer[p] + waited[p] = delays[p][attempt[p]]
        /\ pc[p] # "delaying" => delayTimer[p] = NoTimer
        /\ (attempt[p] >= 2 /\ pc[p] # "delaying") =>
              waited[p] >= delays[p][attempt[p] - 1]

C2_StartsAfterWait ==
    \A p \in Calls :
        fetches'[p] = fetches[p] + 1 /\ fetches[p] >= 1 =>
            /\ pc[p] = "delaying"
            /\ waited[p] = (IF fetches[p] = 1 THEN 1000 ELSE 2000)

\* C2: every state satisfies C2_Waits (waits of 1000 ms then 2000 ms, none
\* after the final failure) and an attempt after the first starts only from
\* a wait that has elapsed in full.
C2_ExponentialBackoff == []C2_Waits /\ [][C2_StartsAfterWait]_vars

C2_Witness ==
    \E p \in Requests :
        pc[p] = "fetching" /\ attempt[p] = 3 /\ delays[p] = <<1000, 2000>>

\* C10: a pending fetch is never older than 300000 ms and its abort timer is
\* armed for what is left of them; an abort happens exactly at 300000 ms and
\* counts as a failed attempt like any other (a backoff wait, or the rethrow
\* after the third attempt); the abort timer of an attempt that got a
\* response is cancelled, so that attempt is never aborted.
C10_Timers ==
    \A p \in Requests :
        /\ pc[p] = "fetching" =>
              /\ elapsed[p] <= 300000
              /\ abortTimer[p][attempt[p]] = 300000 - elapsed[p]
        /\ pc[p] = "reading" => abortTimer[p][attempt[p]] = NoTimer
        /\ lastError[p].kind \in {"http", "parse"} =>
              abortTimer[p][lastError[p].attempt] = NoTimer

C10_AbortStep ==
    \A p \in Calls :
        (failed'[p] = failed[p] + 1 /\ lastError'[p].kind = "abort") =>
            /\ pc[p] = "fetching"
            /\ elapsed[p] = 300000
            /\ lastError'[p].attempt = attempt[p]
            /\ IF attempt[p] < 3
               THEN pc'[p] = "delaying" /\ result'[p].kind = "none"
               ELSE pc'[p] = "done" /\ result'[p] = [kind |-> "thrown", value |-> lastError'[p]]

\* C10: every state satisfies C10_Timers (the abort timer runs out 300000 ms
\* after the fetch began and is cancelled by a response) and every abort
\* happens at 300000 ms and is followed by the retry rule.
C10_TimeoutAborts == []C10_Timers /\ [][C10_AbortStep]_vars

C10_Witness ==
    \E p \in Requests :
        /\ lastError[p] = [kind |-> "abort", attempt |-> 2]
        /\ pc[p] = "reading"
        /\ attempt[p] = 3

Generations == {p \in Calls : caller[p] = "generation"}

\* C3: a startGeneration call (from the button or from the form) whose
\* validation reports valid = false makes no fetch and emits no
\* generationCompleted, and the step that handles it issues no request,
\* leaves state.currentGeneration as it was and emits no generationCompleted.
C3_Rejected ==
    \A p \in Generations :
        form[p] = "invalid" =>
            /\ fetches[p] = 0
            /\ attempt[p] = 0
            /\ pc[p] = "done"
            /\ result[p].kind = "none"
            /\ generated[p] = <<>>

C3_RejectStep ==
    \A p \in Calls :
        (form[p] = "none" /\ form'[p] = "invalid") =>
            /\ fetches' = fetches
            /\ state'["currentGeneration"] = state["currentGeneration"]
            /\ emitCount'["generationCompleted"] = emitCount["generationCompleted"]
            /\ emitCount'["apiSuccess"] = emitCount["apiSuccess"]
            /\ emitCount'["apiError"] = emitCount["apiError"]

\* C3: a call whose validation reported valid = false has made no fetch and
\* stored no generation, and the step that handles it issues no request,
\* keeps state.currentGeneration and emits no generationCompleted.
C3_InvalidFormNoApiCall == []C3_Rejected /\ [][C3_RejectStep]_vars

C3_Witness ==
    \E p, q \in Generations :
        form[p] = "invalid" /\ pc[p] = "done" /\ InFlight(q)

\* C4: a startGeneration call whose request has failed on all 3 attempts has
\* shown exactly one notification, an error carrying the message of the last
\* error, and none was shown by the call while its attempts were failing.
C4_OneErrorNotification ==
    \A p \in Generations :
        /\ (failed[p] = 3 \/ result[p].kind = "thrown") =>
              /\ pc[p] = "done"
              /\ fetches[p] = 3
              /\ notifShown[p] =
                    <<[type |-> "error", message |-> <<"Erreur: ", lastError[p].kind>>]>>
        /\ InFlight(p) => notifShown[p] = <<>>

C4_Witness ==
    \E p \in Generations :
        result[p].kind = "thrown" /\ failed[p] = 3 /\ lastError[p].kind = "network"

\* C5: a startGeneration call that received a reply has shown exactly one
\* notification: for success = true a success notification, with the reply
\* stored in state.currentGeneration and one generationCompleted carrying it;
\* otherwise an error notification carrying the reply's error string, or the
\* default message when it has none, with state.currentGeneration left as it
\* was and no generationCompleted.
C5_Reported ==
    \A p \in Generations :
        result[p].kind = "returned" =>
            /\ result[p].value \in Responses
            /\ IF result[p].value \in {"okA", "okB"}
               THEN /\ notifShown[p] = <<[type |-> "success",
                          message |-> <<"Génération terminée avec succès">>]>>
                    /\ generated[p] = <<result[p].value>>
               ELSE /\ notifShown[p] = <<[type |-> "error",
                          message |-> <<"Erreur: ",
                              IF result[p].value = "failWithError"
                              THEN "quota exceeded" ELSE "Erreur de génération">>]>>
                    /\ generated[p] = <<>>

C5_ReplyStep ==
    \A p \in Calls :
        (result[p].kind = "none" /\ result'[p].kind = "returned"
            /\ caller[p] = "generation") =>
            IF result'[p].value \in {"okA", "okB"}
            THEN /\ state'["currentGeneration"] = result'[p].value
                 /\ emitCount'["generationCompleted"] = emitCount["generationCompleted"] + 1
            ELSE /\ state'["currentGeneration"] = state["currentGeneration"]
                 /\ emitCount'["generationCompleted"] = emitCount["generationCompleted"]

\* C5: every call that got a reply has shown exactly the one notification
\* of its outcome, and the step that handles the reply stores and announces
\* it exactly when success is true.
C5_OneOutcomePerReply == []C5_Reported /\ [][C5_ReplyStep]_vars

C5_Witness ==
    \E p, q \in Generations :
        /\ result[p] = [kind |-> "returned", value |-> "failWithError"]
        /\ result[q] = [kind |-> "returned", value |-> "okB"]
        /\ state["currentGeneration"] = "okB"

\* C6: while a generation request is in flight, state.loading is true and the
\* overlay is shown.
C6_LoadingWhileInFlight ==
    \A p \in Generations :
        InFlight(p) => state["loading"] = TRUE /\ overlay = "flex"

\* C7: app.initialized, state.initialized and the appInitialized event (at
\* most one) are seen only when all five module scripts have settled, the
\* module loading has been stopped and the global and UI listeners are
\* attached; when initialize() has thrown, both flags are false, no
\* appInitialized was emitted, exactly one error notification was shown and
\* the error rethrown is the one that was caught.
C7_LinearBootstrap ==
    /\ emitCount["appInitialized"] <= 1
    /\ (initialized \/ state["initialized"] \/ emitCount["appInitialized"] > 0) =>
          /\ initPc = "ready"
          /\ Len(settled) = Len(ModulesToLoad)
          /\ "modules_loading" \notin activeLoads
          /\ domListeners = AllListeners
    /\ initPc = "ready" =>
          /\ initialized
          /\ state["initialized"]
          /\ emitCount["appInitialized"] = 1
    /\ initPc = "failed" =>
          /\ ~initialized
          /\ ~state["initialized"]
          /\ emitCount["appInitialized"] = 0
          /\ domListeners = {}
          /\ notifShown[0] =
                <<[type |-> "error",
                   message |-> <<"Erreur lors du chargement de l'application">>]>>
          /\ initError = "TypeError: loading-message"

C7_Witness ==
    /\ initPc = "failed"
    /\ page = "overlayNoMessage"
    /\ Len(notifShown[0]) = 1

\* C8: the five module scripts are attempted in the listed order whatever the
\* earlier ones did; no outcome of a script makes initialize() fail; once all
\* five have settled the loading is stopped and the application is
\* initialized; app.modules holds exactly the modules whose script loaded and
\* registered itself on window.
C8_ModulesOptional ==
    /\ Len(attempted) <= Len(ModulesToLoad)
    /\ \A i \in 1..Len(attempted) : attempted[i] = ModulesToLoad[i]
    /\ Len(settled) <= Len(attempted)
    /\ Len(attempted) <= Len(settled) + 1
    /\ initPc = "loadingModule" => Len(attempted) = Len(settled) + 1
    /\ initPc = "failed" => attempted = <<>> /\ settled = <<>>
    /\ Len(settled) = Len(ModulesToLoad) =>
          /\ attempted = ModulesToLoad
          /\ initPc = "ready"
          /\ initialized
          /\ "modules_loading" \notin activeLoads
    /\ modules = {ModulesToLoad[i] : i \in {j \in 1..Len(settled) : settled[j] = "registered"}}

C8_Witness ==
    /\ initPc = "ready"
    /\ settled = <<"error", "unregistered", "registered", "error", "registered">>
    /\ modules = {"dataVisualizer", "exportManager"}

\* C9: a setState(updates) call leaves every key of updates holding the value
\* given, every other key holding the value it had, and no key beyond those
\* two sets; the previousState handed to every subscriber and carried by the
\* stateChanged event is the state as it was when the call began, and the
\* newState is the state the call leaves.
C9_SetStateStep ==
    emitCount'["stateChanged"] # emitCount["stateChanged"] =>
        /\ emitCount'["stateChanged"] = emitCount["stateChanged"] + 1
        /\ DOMAIN state' = (DOMAIN state) \cup (DOMAIN setStateArg')
        /\ \A k \in DOMAIN setStateArg' : state'[k] = setStateArg'[k]
        /\ \A k \in (DOMAIN state) \ (DOMAIN setStateArg') : state'[k] = state[k]
        /\ \A s \in subscribers :
              delivered'[s] = [newState |-> state', previousState |-> state]
        /\ \A l \in Range(listeners["stateChanged"]) :
              heard'[l] = [newState |-> state', previousState |-> state,
                           updates |-> setStateArg']

\* C9: every step that performs a setState is a shallow overwrite that hands
\* out the state before the call as previousState.
C9_ShallowOverwrite == [][C9_SetStateStep]_vars

C9_Witness ==
    /\ setStateArg = [isMobile |-> FALSE, currentGeneration |-> "okA"]
    /\ "s1" \in subscribers
    /\ listeners["stateChanged"] = <<"l1">>
    /\ delivered["s1"].newState = state
    /\ delivered["s1"].previousState["currentGeneration"] = "null"
    /\ delivered["s1"].previousState["loading"] = TRUE
    /\ state["loading"] = TRUE
    /\ state["currentGeneration"] = "okA"

\* C11: once MalaysiaGenerator.logger.level has been set to 'debug', every
\* call of logger.debug writes its message to the console.
C11_LevelPropertyEnablesDebug ==
    [][(logger.level = "debug" /\ logCalls'["debug"] = logCalls["debug"] + 1) =>
          console'["debug"] = console["debug"] + 1]_vars

\* C12: once a startLoading, stopLoading or stopAllLoading call has been made
\* (the script has set the overlay's display), state.loading is true exactly
\* when activeLoads is not empty, and the overlay is displayed exactly when
\* activeLoads is not empty.
C12_LoadingMatchesActiveLoads ==
    overlay \in {"flex", "none"} =>
        /\ (state["loading"] = TRUE) <=> (activeLoads # {})
        /\ (overlay = "flex") <=> (activeLoads # {})

\* C13: a startGeneration call ends, whatever its outcome, in a state where
\* 'main_generation' is not an active load; once initialize() has ended, and
\* loadModules with it, 'modules_loading' is not an active load; and when
\* nothing is active state.loading is false.
C13_GenerationReleases ==
    \A p \in Calls :
        (pc[p] # "done" /\ pc'[p] = "done" /\ caller'[p] = "generation") =>
            /\ "main_generation" \notin activeLoads'
            /\ activeLoads' = {} => state'["loading"] = FALSE

C13_ModulesReleased ==
    initPc \in {"ready", "failed"} =>
        /\ "modules_loading" \notin activeLoads
        /\ activeLoads = {} => state["loading"] = FALSE

C13_LoadingReleased == []C13_ModulesReleased /\ [][C13_GenerationReleases]_vars

\* C14: a keydown of F5 or Ctrl+R is prevented exactly when state.loading is
\* true when it is handled, and then one warning notification is shown and
\* otherwise none; so it is prevented whenever a generation request is in
\* flight, and not prevented when no load is active.
C14_ReloadKeyStep ==
    (keysPressed' = keysPressed + 1 /\ IsReload(lastKey')) =>
        /\ prevented' <=> (state["loading"] = TRUE)
        /\ notifShown'[0] =
              IF prevented'
              THEN Append(notifShown[0],
                          [type |-> "warning",
                           message |-> <<"Génération en cours - rechargement bloqué">>])
              ELSE notifShown[0]
        /\ (\E p \in Calls : caller[p] = "generation" /\ InFlight(p)) => prevented'
        /\ activeLoads = {} => ~prevented'

C14_ReloadBlockedWhileGenerating == [][C14_ReloadKeyStep]_vars

BusEmitStep == BusEmits' # BusEmits
Names(log) == [k \in 1..Len(log) |-> log[k].callback]
Count(seq, x) == Cardinality({k \in 1..Len(seq) : seq[k] = x})

RECURSIVE IsSubSeq(_, _)
IsSubSeq(a, b) ==
    IF a = <<>> THEN TRUE
    ELSE IF b = <<>> THEN FALSE
    ELSE IF Head(a) = Head(b) THEN IsSubSeq(Tail(a), Tail(b))
    ELSE IsSubSeq(a, Tail(b))

\* C15: an emit() does not throw; the callbacks it calls are listeners of the
\* event type, in their registration order, each called with the emitted
\* data; and when no registration is removed while it runs, every listener
\* is called, those registered after a listener that throws included.
C15_EmitStep ==
    BusEmitStep =>
        LET regs == listeners[lastEmit'.type]
        IN /\ lastEmit'.threw = FALSE
           /\ \A k \in 1..Len(called') : called'[k].data = lastEmit'.data
           /\ IsSubSeq(Names(called'), regs)
           /\ listeners' = listeners => Names(called') = regs

C15_EmitIsolatesListeners == [][C15_EmitStep]_vars

C15_Witness ==
    /\ lastEmit = [type |-> "viewportChanged", data |-> "d1", threw |-> FALSE]
    /\ listeners["viewportChanged"] = <<"thrower", "plain", "thrower">>
    /\ Names(called) = <<"thrower", "plain", "thrower">>

\* C16: in an emit(), every registration that the event type has when the
\* emit begins and still has when it ends is called exactly once, also when
\* listeners call off() while the emit runs.
C16_EmitStep ==
    BusEmitStep =>
        \A callback \in BusCallbacks :
            /\ Count(Names(called'), callback)
                   >= Count(listeners'[lastEmit'.type], callback)
            /\ Count(Names(called'), callback)
                   <= Count(listeners[lastEmit'.type], callback)

C16_EveryListenerCalledOnce == [][C16_EmitStep]_vars

\* C17: an off(eventType, callback) removes the earliest registration of the
\* callback for that type and nothing else, and changes nothing when there
\* is none; an emit() during which nothing is removed calls a callback as
\* many times as it is registered.
C17_OffStep ==
    lastOff'.count # lastOff.count =>
        LET eventType == lastOff'.type
            callback == lastOff'.callback
            regs == listeners[eventType]
            left == listeners'[eventType]
            i == lastOff'.index
        IN /\ \A t \in EventTypes \ {eventType} : listeners'[t] = listeners[t]
           /\ IF \E k \in 1..Len(regs) : regs[k] = callback
              THEN /\ i \in 1..Len(regs)
                   /\ regs[i] = callback
                   /\ \A k \in 1..(i - 1) : regs[k] # callback
                   /\ Len(left) = Len(regs) - 1
                   /\ \A k \in 1..Len(left) :
                         left[k] = IF k < i THEN regs[k] ELSE regs[k + 1]
              ELSE i = 0 /\ left = regs

C17_EmitStep ==
    (BusEmitStep /\ listeners' = listeners) =>
        \A callback \in BusCallbacks :
            Count(Names(called'), callback) = Count(listeners[lastEmit'.type], callback)

C17_OffRemovesEarliest == [][C17_OffStep /\ C17_EmitStep]_vars

C17_Witness ==
    /\ lastOff = [type |-> "escapePressed", callback |-> "plain", index |-> 1,
                  count |-> 1]
    /\ listeners["escapePressed"] = <<"thrower", "plain">>
    /\ lastEmit.type = "escapePressed"
    /\ Names(called) = <<"plain", "thrower", "plain">>

\* a step in which setState() ran: it emitted, or left another trace
SubsSetStateStep ==
    \/ emitCount'["stateChanged"] # emitCount["stateChanged"]
    \/ trace' # trace
IsEvent(entry) == entry.who = "stateChanged"
Events(log) == SelectSeq(log, IsEvent)
CallsOf(log, callback) == Cardinality({k \in 1..Len(log) : log[k].who = callback})

\* What the code guarantees about subscriptions: a setState() calls every
\* subscribed callback once (once for each setState that runs, when a
\* subscriber calls setState itself) and calls no callback that is not
\* subscribed; calling the function returned by subscribe() removes that
\* callback and no other, and calling it while the callback is not
\* subscribed changes nothing.
C18_SetStateStep ==
    SubsSetStateStep =>
        \A callback \in StateCallbacks :
            CallsOf(trace', callback) =
                IF callback \in subscribers THEN Len(Events(trace')) ELSE 0

C18_UnsubscribeStep ==
    \A callback \in StateCallbacks :
        unsubCalls'[callback] # unsubCalls[callback] =>
            /\ subscribers' = subscribers \ {callback}
            /\ subscribers' = Range(subOrder')
            /\ IsSubSeq(subOrder', subOrder)
            /\ Len(subOrder') = Cardinality(subscribers')
            /\ callback \notin subscribers => subOrder' = subOrder
            /\ state' = state /\ trace' = trace

C18_WhileSubscribed == [][C18_SetStateStep /\ C18_UnsubscribeStep]_vars

\* a second or later call of the same unsubscribe function
C18_AgainStep ==
    \A callback \in StateCallbacks :
        (unsubCalls[callback] > 0 /\ unsubCalls'[callback] # unsubCalls[callback])
            => (subOrder' = subOrder /\ subscribers' = subscribers)

C19_SetStateStep ==
    SubsSetStateStep =>
        /\ trace'[Len(trace')].who = "stateChanged"
        /\ trace'[Len(trace')].updates = setStateArg'
        /\ trace'[Len(trace')].previousState = state
        /\ \A callback \in subscribers :
              \E k \in 1..(Len(trace') - 1) :
                  /\ trace'[k].who = callback
                  /\ trace'[k].previousState = state
        /\ subOrder # <<>> =>
              /\ trace'[1].who = subOrder[1]
              /\ trace'[1].newState = Merge(state, setStateArg')
        /\ "setter" \notin subscribers =>
              /\ state' = Merge(state, setStateArg')
              /\ [k \in 1..(Len(trace') - 1) |-> trace'[k].who] = subOrder

C19_NotifyThenEmit == [][C19_SetStateStep]_vars

C19_Witness ==
    /\ subOrder = <<"thrower", "plain">>
    /\ Len(trace) = 3
    /\ trace[1].who = "thrower"
    /\ trace[2].who = "plain"
    /\ trace[3].who = "stateChanged"
    /\ trace[3].newState = state
    /\ state["loading"] = TRUE

\* C20: the stateChanged events of a setState() call, in the order they are
\* emitted, each have newState = previousState overwritten with updates, and
\* follow the order in which the updates were applied: the first starts from
\* the state before the call, each next one from the newState of the one
\* before, and the last ends in the state the call leaves.
C20_SetStateStep ==
    SubsSetStateStep =>
        LET ev == Events(trace')
        IN /\ \A k \in 1..Len(ev) :
                 /\ ev[k].newState = Merge(ev[k].previousState, ev[k].updates)
                 /\ ev[k].previousState = IF k = 1 THEN state ELSE ev[k - 1].newState
           /\ ev[Len(ev)].newState = state'

C20_EventsConsistent == [][C20_SetStateStep]_vars

Gone(id) == id \notin notifications /\ id \notin children

\* whatever the user does, a notification shown with duration > 0 ends up
\* out of the Map and out of the container
C21_EventuallyRemoved ==
    \A id \in NotifIds :
        (note[id].shown /\ note[id].duration > 0) ~> Gone(id)

\* it is gone once duration plus the animation delay have passed
C21_RemovedInTime ==
    \A id \in NotifIds :
        (/\ note[id].shown
         /\ note[id].duration > 0
         /\ note[id].age * AnimationDuration > note[id].duration + AnimationDuration)
            => Gone(id)

\* shown with duration <= 0 and no close(id) called for it: in the Map and
\* in the container, with no timer
C21_StaysUntilClosed ==
    \A id \in NotifIds :
        (note[id].shown /\ note[id].duration <= 0 /\ closeCalls[id] = 0)
            => /\ id \in notifications
               /\ id \in children
               /\ autoTimer[id] = NoTimer
               /\ removeTimers[id] = <<>>
               /\ closedEvents[id] = 0

\* a close(id), by a call or by the auto-close timer, for an id that is not
\* in the Map
C21_CloseUnknownStep ==
    \A id \in NotifIds :
        (/\ id \notin notifications
         /\ \/ closeCalls'[id] # closeCalls[id]
            \/ autoTimer[id] = 0 /\ autoTimer'[id] = NoTimer)
            => /\ notifications' = notifications
               /\ children' = children
               /\ removeTimers' = removeTimers
               /\ closedEvents' = closedEvents
               /\ emitCount' = emitCount
               /\ heard' = heard

\* C21: a notification shown with duration > 0 is, without any user action,
\* eventually closed and removed from the Map and from the container, and is
\* removed once duration plus the animation delay have passed; one shown
\* with duration <= 0 stays in the Map until close(id) is called for it; a
\* close(id) for an id that is not in the Map changes nothing and emits
\* nothing.
C21_Lifecycle ==
    /\ C21_EventuallyRemoved
    /\ [](C21_RemovedInTime /\ C21_StaysUntilClosed)
    /\ [][C21_CloseUnknownStep]_vars

\* notification 1, shown with a positive duration and never closed by hand,
\* has been closed by its timer and removed exactly when duration plus the
\* animation delay had passed, while notification 2, shown with
\* duration <= 0, is still there
C21_Witness ==
    /\ note[1].shown /\ note[1].duration > 0 /\ closeCalls[1] = 0
    /\ note[1].age * AnimationDuration = note[1].duration + AnimationDuration
    /\ Gone(1)
    /\ closedEvents[1] = 1
    /\ note[2].shown /\ note[2].duration <= 0 /\ note[2].age > 0
    /\ 2 \in notifications

\* C22: for every notification, the notificationClosed event is emitted at
\* most once.
C22_ClosedAtMostOnce ==
    \A id \in NotifIds : closedEvents[id] <= 1

====
